---------------------------- MODULE Spec2Model ----------------------------
(***************************************************************************)
(* A model of github.com/deep-rent/retry: the backoff strategies and their *)
(* decorators (package backoff) and the retry cycle driven by              *)
(* Cycler.TryWithContext (package retry).                                  *)
(*                                                                         *)
(* Durations and instants are integers (time.Duration counts nanoseconds;  *)
(* one unit of the model is one unit of time.Duration).  Fractions (the    *)
(* jitter spread, the random sample) are counted in quarters, and the      *)
(* exponential multiplier is a fraction mn/md, so that the float64         *)
(* arithmetic of the source is exact on the values used here.              *)
(* time.Duration is an int64; the model keeps DurationBits bits of it, so  *)
(* that the conversions that leave its range can be reached.               *)
(***************************************************************************)
EXTENDS Integers, Sequences, FiniteSets, TLC

VARIABLES
    strategy,    \* Cycler.strategy: the composed backoff.Strategy
    handlers,    \* Cycler.handlers: the registered ErrorHandlerFuncs, in order
    pc,          \* position of the run inside TryWithContext
    ctxOpen,     \* TRUE iff ctx can be cancelled (FALSE: context.Background)
    ctxErr,      \* ctx.Err(): "nil" or "Canceled"
    ctxAtStart,  \* ctx.Err() at the time TryWithContext was called
    n,           \* local n: number of attempts
    start,       \* local start: c.Clock.Time() at the beginning of the cycle
    err,         \* local err: the error of the attempt in flight
    t,           \* local t: the *time.Timer (st = "nil" until created)
    now,         \* the wall clock read by c.Clock and by the runtime timers
    result,      \* the value TryWithContext returned ("none" while running)
    log          \* history: everything the run did, in order

vars == <<strategy, handlers, pc, ctxOpen, ctxErr, ctxAtStart, n, start, err,
          t, now, result, log>>

-----------------------------------------------------------------------------
(* Bounds of the model *)

MaxAttempts == 3
MaxTime == 1
MaxDecor == 1
MaxHandlers == 2
\* decorators stacked on one base strategy, where stacks are looked at
MaxStack == 2
\* attempt numbers that Delay is called with directly
MaxN == 4
\* width of time.Duration in the model
DurationBits == 12

-----------------------------------------------------------------------------
(* Package backoff *)

\* var Exit time.Duration = -1
Exit == -1

RECURSIVE Pow(_, _)
Pow(b, e) == IF e = 0 THEN 1 ELSE b * Pow(b, e - 1)

\* the largest and the smallest time.Duration
MaxDuration == Pow(2, DurationBits - 1) - 1
MinDuration == -Pow(2, DurationBits - 1)

\* the builds: what a conversion float64 -> int64 gives for a value that
\* int64 cannot represent depends on the implementation
Archs == {"amd64", "arm64"}

\* x / y truncated toward zero, y > 0
Trunc(x, y) == IF x >= 0 THEN x \div y ELSE -((-x) \div y)

\* time.Duration(f) for the float64 f = x / y: the fraction is discarded; out
\* of range amd64 gives the "integer indefinite" value (the smallest int64)
\* and arm64 saturates
Conv(x, y, arch) ==
    LET v == Trunc(x, y)
    IN  IF MinDuration <= v /\ v <= MaxDuration THEN v
        ELSE IF arch = "amd64" \/ v < 0 THEN MinDuration
        ELSE MaxDuration

\* the int64 that the arithmetic of the machine gives for the integer x: x
\* modulo 2^64, between the smallest and the largest duration
Wrap(x) ==
    ((x - MinDuration) % Pow(2, DurationBits)) + MinDuration

\* constant.Delay
constantDelay(con) == con.d

\* what a constructor that panics gives its caller: no strategy
Panicked == [kind |-> "panic"]

\* Constant(d)
Constant(d) == IF d < 0 THEN Panicked ELSE [kind |-> "constant", d |-> d]

\* var Once Strategy = &constant{Exit}
Once == [kind |-> "constant", d |-> Exit]

\* linear.Delay without the test for a negative delay
linearDelay_Unclamped(lin, a) == Wrap(lin.k * (a - 1) + lin.d)

\* linear.Delay: delay := lin.k*time.Duration(n-1) + lin.d
linearDelay(lin, a) ==
    LET delay == Wrap(lin.k * (a - 1) + lin.d)
    IN  IF delay < 0 THEN 0 ELSE delay

\* Linear(d, k)
Linear(d, k) ==
    IF d < 0 THEN Panicked
    ELSE IF k = 0 THEN Constant(d)
    ELSE [kind |-> "linear", d |-> d, k |-> k]

\* exponential.Delay with the exponent n instead of n-1
exponentialDelay_OffByOne(exp, a, arch) ==
    Conv(exp.d * Pow(exp.mn, a), Pow(exp.md, a), arch)

\* exponential.Delay: time.Duration(float64(d) * math.Pow(m, n-1)), m = mn/md
exponentialDelay(exp, a, arch) ==
    Conv(exp.d * Pow(exp.mn, a - 1), Pow(exp.md, a - 1), arch)

\* Exponential(d, m), m = mn/md with md > 0
Exponential(d, mn, md) ==
    IF d < 0 \/ mn < 0 THEN Panicked
    ELSE IF d = 0 \/ mn = 0 THEN Constant(0)
    ELSE IF mn = md THEN Constant(d)
    ELSE [kind |-> "exponential", d |-> d, mn |-> mn, md |-> md]

\* cap.Delay: min(inner, max)
capDelay(c, inner) == IF inner > c.max THEN c.max ELSE inner

\* Cap(strategy, max)
Cap(s, max) ==
    IF max <= 0 THEN s ELSE [kind |-> "cap", inner |-> s, max |-> max]

\* limit.Delay exiting one attempt late
limitExits_OffByOne(lim, a) == a > lim.n

\* limit.Delay
limitExits(lim, a) == a >= lim.n

\* Limit(strategy, n)
Limit(s, m) ==
    IF m < 1 THEN s ELSE [kind |-> "limit", inner |-> s, n |-> m]

\* timeout.Delay exiting only after the limit has been passed
timeoutExits_Strict(tmo, st, clk) == clk - st > tmo.limit

\* timeout.Delay: t.clock.Time().Sub(start) >= t.limit
timeoutExits(tmo, st, clk) == clk - st >= tmo.limit

\* Timeout wrapping the strategy for limit = 0
Timeout_ZeroWraps(s, limit) ==
    IF limit < 0 THEN s ELSE [kind |-> "timeout", inner |-> s, limit |-> limit]

\* Timeout(strategy, limit, clock)
Timeout(s, limit) ==
    IF limit <= 0 THEN s ELSE [kind |-> "timeout", inner |-> s, limit |-> limit]

\* jitter.Delay scaling the sample by 2*w instead of 2*w + 1
jitterDelay_NoUnit(j, delay, rq, arch) ==
    Conv(16 * delay - 4 * j.sq * delay + rq * (2 * j.sq * delay), 16, arch)

\* jitter.Delay on a delay that is not Exit; spread = sq/4, random() = rq/4:
\* time.Duration(float64(delay) - w + (random() * (2*w + 1))), w = delay*spread
jitterDelay(j, delay, rq, arch) ==
    Conv(16 * delay - 4 * j.sq * delay + rq * (2 * j.sq * delay + 4), 16, arch)

\* Jitter clamping a spread outside [0,1) instead of panicking
Jitter_Clamps(s, sq) ==
    IF sq <= 0 THEN s
    ELSE [kind |-> "jitter", inner |-> s, sq |-> IF sq >= 4 THEN 3 ELSE sq]

\* Jitter(strategy, spread, random), spread = sq/4
Jitter(s, sq) ==
    IF sq < 0 \/ sq >= 4 THEN Panicked
    ELSE IF sq = 0 THEN s
    ELSE [kind |-> "jitter", inner |-> s, sq |-> sq]

BaseKinds == {"constant", "linear", "exponential"}

\* number of decorators wrapped around the base strategy
RECURSIVE Depth(_)
Depth(s) == IF s.kind \in BaseKinds THEN 0 ELSE 1 + Depth(s.inner)

\* the depths at which a strategy holds a jitter, each with a Random
RECURSIVE JitterDepths(_)
JitterDepths(s) ==
    IF s.kind \in BaseKinds THEN {}
    ELSE IF s.kind = "jitter" THEN {Depth(s)} \cup JitterDepths(s.inner)
    ELSE JitterDepths(s.inner)

\* Strategy.Delay(n, start), dispatched on the dynamic type; clk is what the
\* Clock returns during the call, rs[k] what the Random of the jitter at
\* depth k returns, and arch the build
RECURSIVE Delay(_, _, _, _, _, _)
Delay(s, a, st, clk, rs, arch) ==
    CASE s.kind = "constant"    -> constantDelay(s)
      [] s.kind = "linear"      -> linearDelay(s, a)
      [] s.kind = "exponential" -> exponentialDelay(s, a, arch)
      [] s.kind = "cap"         ->
            capDelay(s, Delay(s.inner, a, st, clk, rs, arch))
      [] s.kind = "limit"       ->
            IF limitExits(s, a) THEN Exit
            ELSE Delay(s.inner, a, st, clk, rs, arch)
      [] s.kind = "timeout"     ->
            IF timeoutExits(s, st, clk) THEN Exit
            ELSE Delay(s.inner, a, st, clk, rs, arch)
      [] s.kind = "jitter"      ->
            LET delay == Delay(s.inner, a, st, clk, rs, arch)
            IN  IF delay = Exit THEN delay
                ELSE jitterDelay(s, delay, rs[Depth(s)], arch)

-----------------------------------------------------------------------------
(* Package retry: the Cycler and its configuration *)

\* arguments the configuration methods are called with
CapArgs == {0, 1}
LimitArgs == {0, 1, 2, 3}
TimeoutArgs == {0, 1}
SpreadArgs == {0, 2, 4}
\* values of the default random generator, in quarters
Samples == {0, 3}

\* strategies handed to NewCycler
Bases ==
    {Constant(0), Linear(1, -1), Exponential(1, 2, 1), Once}

\* c.strategy = backoff.Jitter(c.strategy, ...): a constructor that panics
\* leaves the variable as it was (cur), otherwise the variable holds what
\* the constructor returned (ret)
Assign(cur, ret) == IF ret = Panicked THEN cur ELSE ret

NoTimer == [st |-> "nil", deadline |-> 0]

\* the error the n-th invocation of the attempt function fails with
AttemptErr(a) == "E" \o ToString(a)

\* what an invocation of the attempt function may return: nil, an ordinary
\* error, or ForceExit(cause) (x = TRUE) with cause an error or nil
Outcomes(a) ==
    {[x |-> FALSE, e |-> "nil"], [x |-> FALSE, e |-> AttemptErr(a)],
     [x |-> TRUE, e |-> AttemptErr(a)], [x |-> TRUE, e |-> "nil"]}

\* an entry of the log: what was done (ev), for which attempt (n), by or to
\* which handler (h), with which duration (d) and error (e), at what time
\* (at), and what ctx.Err() was at that moment (c)
EvC(ev, a, h, d, e, ce) ==
    [ev |-> ev, n |-> a, h |-> h, d |-> d, e |-> e, at |-> now, c |-> ce]

Ev(ev, a, h, d, e) == EvC(ev, a, h, d, e, ctxErr)

\* NewCycler(strategy): the state after construction
Init ==
    /\ strategy \in Bases
    /\ handlers = <<>>
    /\ pc = "idle"
    /\ ctxOpen = FALSE
    /\ ctxErr = "nil"
    /\ ctxAtStart = "nil"
    /\ n = 0
    /\ start = 0
    /\ err = "nil"
    /\ t = NoTimer
    /\ now = 0
    /\ result = "none"
    /\ log = <<>>

runVars == <<pc, ctxOpen, ctxErr, ctxAtStart, n, start, err, t, now, result, log>>

\* Cycler.OnError
OnError ==
    /\ pc = "idle"
    /\ Len(handlers) < MaxHandlers
    /\ handlers' = Append(handlers, Len(handlers) + 1)
    /\ UNCHANGED <<strategy, runVars>>

\* Cycler.Cap
CyclerCap ==
    /\ pc = "idle"
    /\ Depth(strategy) < MaxDecor
    /\ \E max \in CapArgs : strategy' = Cap(strategy, max)
    /\ UNCHANGED <<handlers, runVars>>

\* Cycler.Jitter
CyclerJitter ==
    /\ pc = "idle"
    /\ Depth(strategy) < MaxDecor
    /\ \E sq \in SpreadArgs :
           strategy' = Assign(strategy, Jitter(strategy, sq))
    /\ UNCHANGED <<handlers, runVars>>

\* Cycler.Limit
CyclerLimit ==
    /\ pc = "idle"
    /\ Depth(strategy) < MaxDecor
    /\ \E m \in LimitArgs : strategy' = Limit(strategy, m)
    /\ UNCHANGED <<handlers, runVars>>

\* Cycler.Timeout
CyclerTimeout ==
    /\ pc = "idle"
    /\ Depth(strategy) < MaxDecor
    /\ \E limit \in TimeoutArgs : strategy' = Timeout(strategy, limit)
    /\ UNCHANGED <<handlers, runVars>>

-----------------------------------------------------------------------------
(* Cycler.TryWithContext *)

\* a loop that looks at the context before it invokes the attempt function
Invoke_CtxChecked(k, sofar, ce) ==
    IF ce # "nil"
    THEN /\ n' = k - 1
         /\ pc' = "done"
         /\ result' = ce
         /\ log' = Append(sofar, EvC("ctxerr", k - 1, 0, 0, "nil", ce))
    ELSE /\ n' = k
         /\ pc' = "inAttempt"
         /\ result' = "none"
         /\ log' = Append(sofar, EvC("call", k, 0, 0, "nil", ce))

\* n++; err := attempt(n): the k-th invocation of the attempt function
\* begins, sofar being the log up to it and ce what ctx.Err() is
Invoke(k, sofar, ce) ==
    /\ n' = k
    /\ pc' = "inAttempt"
    /\ result' = "none"
    /\ log' = Append(sofar, EvC("call", k, 0, 0, "nil", ce))

\* an entry that counts on from the attempt number of the run before
Enter_CountsOn(open, e0) ==
    /\ pc = "idle"
    /\ ctxOpen' = open
    /\ ctxErr' = e0
    /\ ctxAtStart' = e0
    /\ start' = now
    /\ err' = "nil"
    /\ t' = NoTimer
    /\ Invoke(n + 1, <<>>, e0)
    /\ UNCHANGED <<strategy, handlers, now>>

\* entry: var t *time.Timer; n := 0; start := c.Clock.Time(); the loop begins
Enter(open, e0) ==
    /\ pc = "idle"
    /\ ctxOpen' = open
    /\ ctxErr' = e0
    /\ ctxAtStart' = e0
    /\ start' = now
    /\ err' = "nil"
    /\ t' = NoTimer
    /\ Invoke(1, <<>>, e0)
    /\ UNCHANGED <<strategy, handlers, now>>

\* Cycler.Try: TryWithContext(context.Background(), attempt)
Try ==
    /\ pc = "idle"
    /\ Enter(FALSE, "nil")

\* Cycler.TryWithContext with a context that can be cancelled, and may
\* already be
TryWithContext ==
    /\ pc = "idle"
    /\ \E e0 \in {"nil", "Canceled"} : Enter(TRUE, e0)

\* a return without the deferred function
Deferred_Missing(tm) == tm

\* the deferred function: if t != nil { t.Stop() }
Deferred(tm) == IF tm.st = "nil" THEN tm ELSE [tm EXCEPT !.st = "stopped"]

DeferredLog(tm) ==
    IF tm.st = "nil" THEN <<>> ELSE <<Ev("stop", n, 0, 0, "nil")>>

\* a return that lets a cancelled context override the value returned
Return_CtxFirst(v, evs) ==
    /\ result' = IF ctxErr # "nil" THEN ctxErr ELSE v
    /\ pc' = "done"
    /\ t' = Deferred(t)
    /\ log' = log \o evs \o DeferredLog(t)

\* a return statement of TryWithContext, evs being what was done since the
\* last step
Return(v, evs) ==
    /\ result' = v
    /\ pc' = "done"
    /\ t' = Deferred(t)
    /\ log' = log \o evs \o DeferredLog(t)

\* the handlers called last-registered first
Notify_Reversed(hs, a, delay, e) ==
    [i \in 1 .. Len(hs) |-> Ev("notify", a, hs[Len(hs) + 1 - i], delay, e)]

\* for _, h := range c.handlers { h(n, delay, err) }
Notify(hs, a, delay, e) ==
    [i \in 1 .. Len(hs) |-> Ev("notify", a, hs[i], delay, e)]

\* the timer armed with no delay at all
ArmLog_NoDelay(tm, a, delay) ==
    IF tm.st = "nil" THEN <<Ev("newtimer", a, 0, 0, "nil")>>
    ELSE <<Ev("reset", a, 0, 0, "nil")>>

\* if t == nil { t = time.NewTimer(delay) } else { t.Reset(delay) }
ArmLog(tm, a, delay) ==
    IF tm.st = "nil" THEN <<Ev("newtimer", a, 0, delay, "nil")>>
    ELSE <<Ev("reset", a, 0, delay, "nil")>>

\* the attempt's error returned whatever the context says
ExitResult_IgnoresCtx(ce, e) == e

\* the error returned when the strategy says Exit
ExitResult(ce, e) == IF ce # "nil" THEN ce ELSE e

\* the handlers notified before the delay is compared with Exit
AfterFailure_NotifiesFirst(e, delay) ==
    IF delay = Exit
    THEN Return(ExitResult(ctxErr, e),
                <<Ev("return", n, 0, 0, e), Ev("delay", n, 0, delay, "nil")>>
                    \o Notify(handlers, n, delay, e)
                    \o <<Ev("ctxerr", n, 0, 0, "nil")>>)
    ELSE /\ log' = log \o <<Ev("return", n, 0, 0, e),
                            Ev("delay", n, 0, delay, "nil")>>
                       \o Notify(handlers, n, delay, e)
                       \o ArmLog(t, n, delay)
         /\ t' = [st |-> "armed", deadline |-> now + delay]
         /\ pc' = "select"
         /\ UNCHANGED result

\* delay := c.strategy.Delay(n, start) and what follows it, up to the select;
\* e is the ordinary error the attempt returned
AfterFailure(e, delay) ==
    IF delay = Exit
    THEN Return(ExitResult(ctxErr, e),
                <<Ev("return", n, 0, 0, e), Ev("delay", n, 0, delay, "nil"),
                  Ev("ctxerr", n, 0, 0, "nil")>>)
    ELSE /\ log' = log \o <<Ev("return", n, 0, 0, e),
                            Ev("delay", n, 0, delay, "nil")>>
                       \o Notify(handlers, n, delay, e)
                       \o ArmLog(t, n, delay)
         /\ t' = [st |-> "armed", deadline |-> now + delay]
         /\ pc' = "select"
         /\ UNCHANGED result

\* the error value an outcome of the attempt function is
ErrName(out) == IF out.x THEN "exit:" \o out.e ELSE out.e

\* a loop without the test for success
IsSuccess_Missing(out) == FALSE

\* err == nil
IsSuccess(out) == out.e = "nil" /\ ~out.x

\* a loop without the test for an ExitError
IsExitError_Missing(out) == FALSE

\* e, ok := err.(*ExitError)
IsExitError(out) == out.x

\* err := attempt(n) returns out, and the loop body runs up to a return or
\* to the select
Returns(out) ==
    /\ pc = "inAttempt"
    /\ err' = ErrName(out)
    /\ IF IsSuccess(out)
       THEN Return("nil", <<Ev("return", n, 0, 0, ErrName(out))>>)
       ELSE IF IsExitError(out)
       THEN Return(out.e, <<Ev("return", n, 0, 0, ErrName(out))>>)
       ELSE \E rs \in [JitterDepths(strategy) -> Samples], arch \in Archs :
               \E delay \in {Delay(strategy, n, start, now, rs, arch)} :
                  AfterFailure(ErrName(out), delay)
    /\ UNCHANGED <<strategy, handlers, ctxOpen, ctxErr, ctxAtStart, n, start, now>>

\* the attempt function returns
AttemptReturn ==
    /\ pc = "inAttempt"
    /\ \E out \in Outcomes(n) : Returns(out)

\* the Done case returning the attempt's error
SelectDone_ReturnsErr ==
    /\ pc = "select"
    /\ ctxErr # "nil"
    /\ Return(err, <<Ev("done", n, 0, 0, "nil")>>)
    /\ UNCHANGED <<strategy, handlers, ctxOpen, ctxErr, ctxAtStart, n, start,
                   err, now>>

\* case <-ctx.Done(): return ctx.Err()
SelectDone ==
    /\ pc = "select"
    /\ ctxErr # "nil"
    /\ Return(ctxErr, <<Ev("done", n, 0, 0, "nil")>>)
    /\ UNCHANGED <<strategy, handlers, ctxOpen, ctxErr, ctxAtStart, n, start,
                   err, now>>

\* a timer whose channel has a value as soon as it is armed
Expired_Early(tm, clk) == tm.st = "armed"

\* the runtime has a value for t.C once the timer's delay has elapsed
Expired(tm, clk) == tm.st = "armed" /\ clk >= tm.deadline

\* case <-t.C: the wait is over and the loop goes on with the next attempt
SelectTimer ==
    /\ pc = "select"
    /\ Expired(t, now)
    /\ n < MaxAttempts
    /\ t' = [t EXCEPT !.st = "drained"]
    /\ Invoke(n + 1, Append(log, Ev("tick", n, 0, 0, "nil")), ctxErr)
    /\ UNCHANGED <<strategy, handlers, ctxOpen, ctxErr, ctxAtStart, start, err,
                   now>>

\* time passes while the run is blocked in the select
Elapse ==
    /\ pc = "select"
    /\ t.st = "armed"
    /\ now < t.deadline
    /\ now' = t.deadline
    /\ UNCHANGED <<strategy, handlers, pc, ctxOpen, ctxErr, ctxAtStart, n,
                   start, err, t, result, log>>

\* time passes while the attempt function runs
Tick ==
    /\ pc = "inAttempt"
    /\ now < MaxTime
    /\ now' = now + 1
    /\ UNCHANGED <<strategy, handlers, pc, ctxOpen, ctxErr, ctxAtStart, n,
                   start, err, t, result, log>>

\* the owner of ctx cancels it while the attempt function runs (from inside
\* it, or from another goroutine) or while the run is blocked in the select
Cancel ==
    /\ pc \in {"inAttempt", "select"}
    /\ ctxOpen
    /\ ctxErr = "nil"
    /\ ctxErr' = "Canceled"
    /\ UNCHANGED <<strategy, handlers, pc, ctxOpen, ctxAtStart, n, start, err,
                   t, now, result, log>>

\* TryWithContext has returned; the cycler is ready for its next cycle
Reuse ==
    /\ pc = "done"
    /\ pc' = "idle"
    /\ ctxOpen' = FALSE
    /\ ctxErr' = "nil"
    /\ ctxAtStart' = "nil"
    /\ n' = 0
    /\ start' = 0
    /\ err' = "nil"
    /\ t' = NoTimer
    /\ now' = 0
    /\ result' = "none"
    /\ log' = <<>>
    /\ UNCHANGED <<strategy, handlers>>

Next ==
    \/ OnError
    \/ CyclerCap
    \/ CyclerJitter
    \/ CyclerLimit
    \/ CyclerTimeout
    \/ Try
    \/ TryWithContext
    \/ AttemptReturn
    \/ SelectDone
    \/ SelectTimer
    \/ Elapse
    \/ Tick
    \/ Cancel
    \/ Reuse

Spec == Init /\ [][Next]_vars

-----------------------------------------------------------------------------
(* The runs of an attempt function that always fails with an ordinary      *)
(* error, under a context that is never cancelled, on a cycler that up to  *)
(* MaxStack configuration calls were made on.                              *)

\* a call of Cycler.Cap, Cycler.Jitter, Cycler.Limit or Cycler.Timeout
Configure ==
    /\ pc = "idle"
    /\ Depth(strategy) < MaxStack
    /\ \/ \E max \in CapArgs : strategy' = Cap(strategy, max)
       \/ \E sq \in SpreadArgs :
              strategy' = Assign(strategy, Jitter(strategy, sq))
       \/ \E m \in LimitArgs : strategy' = Limit(strategy, m)
       \/ \E limit \in TimeoutArgs : strategy' = Timeout(strategy, limit)
    /\ UNCHANGED <<handlers, runVars>>

\* err := attempt(n) returns an ordinary error
AttemptFails ==
    /\ pc = "inAttempt"
    /\ Returns([x |-> FALSE, e |-> AttemptErr(n)])

NextFailing ==
    \/ OnError
    \/ Configure
    \/ Try
    \/ AttemptFails
    \/ SelectTimer
    \/ Elapse
    \/ Tick
    \/ Reuse

\* the run leaves the attempt function; a step of NextFailing that does is
\* a step of AttemptFails, which is enabled whenever pc = "inAttempt"
AttemptEnds == pc = "inAttempt" /\ pc' \in {"select", "done"}

\* the attempt function returns, time passes and the runtime delivers the
\* value of an expired timer
SpecFailing ==
    /\ Init
    /\ [][NextFailing]_vars
    /\ WF_pc(AttemptEnds)
    /\ WF_vars(Elapse)
    /\ WF_vars(SelectTimer)

-----------------------------------------------------------------------------
(* One cycler used for run after run: it is configured before its first    *)
(* run, a run that has returned leaves the values of its local variables   *)
(* behind (they are dead: the next call declares its own), and the clock   *)
(* goes on from run to run.                                                *)

\* no run has been started on the cycler yet
Unused == log = <<>>

\* the calls that configure the cycler
Setup ==
    /\ Unused
    /\ \/ OnError
       \/ CyclerCap
       \/ CyclerJitter
       \/ CyclerLimit
       \/ CyclerTimeout

\* TryWithContext has returned to its caller, which may call it again as
\* long as the clock is within the times looked at
Returned ==
    /\ pc = "done"
    /\ now <= MaxTime
    /\ pc' = "idle"
    /\ UNCHANGED <<strategy, handlers, ctxOpen, ctxErr, ctxAtStart, n, start,
                   err, t, now, result, log>>

NextReuse ==
    \/ Setup
    \/ Try
    \/ TryWithContext
    \/ AttemptReturn
    \/ SelectDone
    \/ SelectTimer
    \/ Elapse
    \/ Tick
    \/ Cancel
    \/ Returned

SpecReuse == Init /\ [][NextReuse]_vars

-----------------------------------------------------------------------------
(* Package backoff on its own: a strategy is constructed, decorated by up  *)
(* to MaxStack decorators, and its Delay is called.  Here log holds the    *)
(* last call of a constructor followed by the calls the last call of Delay *)
(* made, in order: Delay of the strategy and of the strategies inside it,  *)
(* Time of a Clock, and the Random of a jitter.                            *)

\* a call: of what (op), with which arguments (arg), on or around which
\* strategy (s), and what it returned (ret)
Called(op, arg, s, ret) == [op |-> op, arg |-> arg, s |-> s, ret |-> ret]

\* no strategy: where a constructor takes none
NoStrategy == [kind |-> "none"]

\* limit.Delay calling the wrapped strategy before it looks at n
limitFrames_InnerFirst(lim, a, inner) == inner

\* limit.Delay: the calls made after the test of n
limitFrames(lim, a, inner) == IF limitExits(lim, a) THEN <<>> ELSE inner

\* timeout.Delay: the calls made after the test of the clock
timeoutFrames(tmo, st, clk, inner) ==
    IF timeoutExits(tmo, st, clk) THEN <<>> ELSE inner

\* jitter.Delay drawing the random number before it looks at the delay
jitterFrames_RandomFirst(j, delay, rq) == <<Called("random", <<>>, j, rq)>>

\* jitter.Delay: the calls made after the wrapped strategy returned delay
jitterFrames(j, delay, rq) ==
    IF delay = Exit THEN <<>> ELSE <<Called("random", <<>>, j, rq)>>

\* the calls made by s.Delay(n, start), itself included, in order
RECURSIVE Frames(_, _, _, _, _, _)
Frames(s, a, st, clk, rs, arch) ==
    LET self == <<Called("Delay", <<a, st>>, s,
                         Delay(s, a, st, clk, rs, arch))>>
    IN  CASE s.kind \in BaseKinds -> self
          [] s.kind = "cap"     ->
                self \o Frames(s.inner, a, st, clk, rs, arch)
          [] s.kind = "limit"   ->
                self \o limitFrames(s, a,
                                    Frames(s.inner, a, st, clk, rs, arch))
          [] s.kind = "timeout" ->
                self \o <<Called("Time", <<>>, s, clk)>>
                     \o timeoutFrames(s, st, clk,
                                      Frames(s.inner, a, st, clk, rs, arch))
          [] s.kind = "jitter"  ->
                self \o Frames(s.inner, a, st, clk, rs, arch)
                     \o jitterFrames(s, Delay(s.inner, a, st, clk, rs, arch),
                                     rs[Depth(s)])

\* arguments the constructors and Delay are called with
ConstantArgs == {-1, 1, 1000}
LinearArgs ==
    {<<-1, 1>>, <<1, -1>>, <<1, 2>>, <<2, 0>>, <<0, MinDuration + 1>>}
ExponentialArgs ==
    {<<-1, 2, 1>>, <<1, -1, 1>>, <<0, 2, 1>>, <<1, 0, 1>>, <<3, 1, 1>>,
     <<1, 2, 1>>, <<8, 1, 2>>, <<1000, 2, 1>>}
CapMaxes == {-1, 0, 2}
LimitCounts == {-1, 0, 2}
TimeoutLimits == {-1, 0, 2}
Spreads == {-1, 0, 1, 2, 4}
Quarters == {0, 1, 2, 3}
Starts == {0, 1}
Clocks == {2, 3}

\* the calls of Constant, Linear and Exponential, and the variable Once
BaseCalls ==
    {Called("Constant", <<d>>, NoStrategy, Constant(d)) : d \in ConstantArgs}
    \cup {Called("Linear", x, NoStrategy, Linear(x[1], x[2])) :
              x \in LinearArgs}
    \cup {Called("Exponential", x, NoStrategy, Exponential(x[1], x[2], x[3])) :
              x \in ExponentialArgs}
    \cup {Called("Once", <<>>, NoStrategy, Once)}

\* Constant, Linear or Exponential has been called, or Once been taken, for
\* a variable that held no strategy
InitBackoff ==
    /\ \E c \in BaseCalls :
           strategy = Assign(NoStrategy, c.ret) /\ log = <<c>>
    /\ handlers = <<>>
    /\ pc = "idle"
    /\ ctxOpen = FALSE
    /\ ctxErr = "nil"
    /\ ctxAtStart = "nil"
    /\ n = 0
    /\ start = 0
    /\ err = "nil"
    /\ t = NoTimer
    /\ now = 0
    /\ result = "none"

\* strategy = backoff.Cap(strategy, ...) and the like, as the methods of the
\* Cycler do it, before Delay is called
Decorated(c) ==
    /\ n = 0
    /\ strategy' = Assign(strategy, c.ret)
    /\ log' = <<c>>
    /\ n' = 0
    /\ start' = 0
    /\ now' = 0
    /\ result' = "none"
    /\ UNCHANGED <<handlers, pc, ctxOpen, ctxErr, ctxAtStart, err, t>>

\* backoff.Cap(strategy, max)
NewCap ==
    /\ strategy # NoStrategy
    /\ Depth(strategy) < MaxStack
    /\ \E max \in CapMaxes :
           Decorated(Called("Cap", <<max>>, strategy, Cap(strategy, max)))

\* backoff.Jitter(strategy, spread, random)
NewJitter ==
    /\ strategy # NoStrategy
    /\ Depth(strategy) < MaxStack
    /\ \E sq \in Spreads :
           Decorated(Called("Jitter", <<sq>>, strategy, Jitter(strategy, sq)))

\* backoff.Limit(strategy, n)
NewLimit ==
    /\ strategy # NoStrategy
    /\ Depth(strategy) < MaxStack
    /\ \E m \in LimitCounts :
           Decorated(Called("Limit", <<m>>, strategy, Limit(strategy, m)))

\* backoff.Timeout(strategy, limit, clock)
NewTimeout ==
    /\ strategy # NoStrategy
    /\ Depth(strategy) < MaxStack
    /\ \E limit \in TimeoutLimits :
           Decorated(Called("Timeout", <<limit>>, strategy,
                            Timeout(strategy, limit)))

\* strategy.Delay(n, start), with the clock at clk; n = 0 as long as Delay
\* has not been called on the strategy
CallDelay ==
    /\ strategy # NoStrategy
    /\ n = 0
    /\ \E a \in 1 .. MaxN, st \in Starts, clk \in Clocks, arch \in Archs,
          rs \in [JitterDepths(strategy) -> Quarters] :
          \E fs \in {Frames(strategy, a, st, clk, rs, arch)} :
             /\ n' = a
             /\ start' = st
             /\ now' = clk
             /\ result' = fs[1].ret
             /\ log' = <<log[1]>> \o fs
    /\ UNCHANGED <<strategy, handlers, pc, ctxOpen, ctxErr, ctxAtStart, err, t>>

NextBackoff ==
    \/ NewCap
    \/ NewJitter
    \/ NewLimit
    \/ NewTimeout
    \/ CallDelay

SpecBackoff == InitBackoff /\ [][NextBackoff]_vars

-----------------------------------------------------------------------------
(* Reading the log *)

\* positions of the log holding an event of the given kind
At(ev) == {i \in DOMAIN log : log[i].ev = ev}

\* the greatest element of a non-empty set of integers
Last(S) == CHOOSE i \in S : \A j \in S : j <= i

\* the least element of a non-empty set of integers
Least(S) == CHOOSE i \in S : \A j \in S : i <= j

IsCall(x) == x.ev = "call"

\* the attempt numbers the attempt function was invoked with, in order
Calls ==
    LET cs == SelectSeq(log, IsCall) IN [i \in DOMAIN cs |-> cs[i].n]

\* the attempt numbers handler h was notified of, in order
Notified(h) ==
    LET ns == SelectSeq(log, LAMBDA x : x.ev = "notify" /\ x.h = h)
    IN  [i \in DOMAIN ns |-> ns[i].n]

\* <<1, 2, ..., k>>
UpTo(k) == [i \in 1 .. k |-> i]

\* every event after position i is the deferred t.Stop()
OnlyStopAfter(i) == \A j \in DOMAIN log : j > i => log[j].ev = "stop"

\* the run has returned, and the last attempt returned the error value e
EndedWith(e) ==
    /\ pc = "done"
    /\ At("return") # {}
    /\ log[Last(At("return"))].e = e

-----------------------------------------------------------------------------
(* Two calls of TryWithContext on one configured cycler, each on a          *)
(* goroutine of its own, under context.Background.  Here pc, n, start, err, *)
(* t and result hold one value for each run, and log holds the accesses to  *)
(* what the runs share: the field c.strategy, and the state of rd, the      *)
(* generator behind the function random that Cycler.Jitter hands to every   *)
(* jitter.  rd is a *rand.Rand over a source made by rand.NewSource, which  *)
(* is not safe for concurrent use: rd.Float64() reads the state of the      *)
(* source and writes it back, advanced, in separate steps.                  *)

Runs == {1, 2}

\* the strategies of the cycler: NewCycler(backoff.Constant(1)) followed by
\* Limit(2), by Jitter(0.5) and Limit(2), and by Limit(2) and Jitter(0.5)
SharedStrategies ==
    {Limit(Constant(1), 2),
     Limit(Jitter(Constant(1), 2), 2),
     Jitter(Limit(Constant(1), 2), 2)}

\* an access: which run read or wrote (op) which object, and which value
Accessed(r, obj, op, val) == [run |-> r, obj |-> obj, op |-> op, val |-> val]

\* the state of rd: the number of values drawn from it as far as the last
\* write tells (0 after seeding)
Rd ==
    LET ws == {i \in DOMAIN log : log[i].obj = "rd" /\ log[i].op = "write"}
    IN  IF ws = {} THEN 0 ELSE log[Last(ws)].val

\* the state of rd that run r read last
Loaded(r) ==
    log[Last({i \in DOMAIN log : log[i].run = r /\ log[i].obj = "rd"
                                    /\ log[i].op = "read"})].val

\* another run has accessed rd since run r read its state
Raced(r) ==
    LET mine == Last({i \in DOMAIN log : log[i].run = r /\ log[i].obj = "rd"})
    IN  \E i \in DOMAIN log : i > mine /\ log[i].obj = "rd"

\* the value of the generator in a given state, in quarters
SampleOf(x) == x % 4

\* jitter.Delay of strategy s gets as far as its call of random
NeedsRandom(s, a, st, clk) ==
    /\ JitterDepths(s) # {}
    /\ \A rs \in [JitterDepths(s) -> {0}] :
          Delay(s, a, st, clk, rs, "amd64") # Exit

InitConcurrent ==
    /\ strategy \in SharedStrategies
    /\ handlers = <<>>
    /\ pc = [r \in Runs |-> "idle"]
    /\ ctxOpen = FALSE
    /\ ctxErr = "nil"
    /\ ctxAtStart = "nil"
    /\ n = [r \in Runs |-> 0]
    /\ start = [r \in Runs |-> 0]
    /\ err = [r \in Runs |-> "nil"]
    /\ t = [r \in Runs |-> NoTimer]
    /\ now = 0
    /\ result = [r \in Runs |-> "none"]
    /\ log = <<>>

\* go c.Try(attempt): n := 0; start := c.Clock.Time(); n++; attempt(n) begins
Go ==
    \E r \in Runs :
        /\ pc[r] = "idle"
        /\ pc' = [pc EXCEPT ![r] = "inAttempt"]
        /\ n' = [n EXCEPT ![r] = 1]
        /\ start' = [start EXCEPT ![r] = now]
        /\ UNCHANGED <<strategy, handlers, ctxOpen, ctxErr, ctxAtStart, err, t,
                       now, result, log>>

\* err := attempt(n) returns nil: return nil
Succeeds ==
    \E r \in Runs :
        /\ pc[r] = "inAttempt"
        /\ pc' = [pc EXCEPT ![r] = "done"]
        /\ err' = [err EXCEPT ![r] = "nil"]
        /\ result' = [result EXCEPT ![r] = "nil"]
        /\ UNCHANGED <<strategy, handlers, ctxOpen, ctxErr, ctxAtStart, n,
                       start, t, now, log>>

\* err := attempt(n) returns an ordinary error: c.strategy is read for the
\* call of its Delay
Fails ==
    \E r \in Runs :
        /\ pc[r] = "inAttempt"
        /\ pc' = [pc EXCEPT ![r] = "delay"]
        /\ err' = [err EXCEPT ![r] = AttemptErr(n[r])]
        /\ log' = Append(log, Accessed(r, "strategy", "read", strategy))
        /\ UNCHANGED <<strategy, handlers, ctxOpen, ctxErr, ctxAtStart, n,
                       start, t, now, result>>

\* what follows delay := c.strategy.Delay(n, start) in run r
Continue(r, delay) ==
    IF delay = Exit
    THEN /\ pc' = [pc EXCEPT ![r] = "done"]
         /\ result' = [result EXCEPT ![r] = err[r]]
         /\ UNCHANGED t
    ELSE /\ pc' = [pc EXCEPT ![r] = "select"]
         /\ t' = [t EXCEPT ![r] = [st |-> "armed", deadline |-> now + delay]]
         /\ UNCHANGED result

\* delay := c.strategy.Delay(n, start) where no jitter calls random
Consult ==
    \E r \in Runs :
        /\ pc[r] = "delay"
        /\ ~NeedsRandom(strategy, n[r], start[r], now)
        /\ \E rs \in [JitterDepths(strategy) -> {0}] :
              Continue(r, Delay(strategy, n[r], start[r], now, rs, "amd64"))
        /\ UNCHANGED <<strategy, handlers, ctxOpen, ctxErr, ctxAtStart, n,
                       start, err, now, log>>

\* random() called by jitter.Delay: rd.Float64() reads the state of rd
Load ==
    \E r \in Runs :
        /\ pc[r] = "delay"
        /\ NeedsRandom(strategy, n[r], start[r], now)
        /\ pc' = [pc EXCEPT ![r] = "drawing"]
        /\ log' = Append(log, Accessed(r, "rd", "read", Rd))
        /\ UNCHANGED <<strategy, handlers, ctxOpen, ctxErr, ctxAtStart, n,
                       start, err, t, now, result>>

\* rd.Float64() writes the advanced state back and returns; if another run
\* has used rd in between, this is a data race and the value returned is
\* any value; jitter.Delay and the loop go on with it
Store ==
    \E r \in Runs :
        /\ pc[r] = "drawing"
        /\ log' = Append(log, Accessed(r, "rd", "write", Loaded(r) + 1))
        /\ \E rq \in IF Raced(r) THEN Samples ELSE {SampleOf(Loaded(r))} :
              \E rs \in [JitterDepths(strategy) -> {rq}] :
                  Continue(r, Delay(strategy, n[r], start[r], now, rs, "amd64"))
        /\ UNCHANGED <<strategy, handlers, ctxOpen, ctxErr, ctxAtStart, n,
                       start, err, now>>

\* case <-t.C: n++; attempt(n) begins
TimerFires ==
    \E r \in Runs :
        /\ pc[r] = "select"
        /\ Expired(t[r], now)
        /\ t' = [t EXCEPT ![r] = [@ EXCEPT !.st = "drained"]]
        /\ n' = [n EXCEPT ![r] = n[r] + 1]
        /\ pc' = [pc EXCEPT ![r] = "inAttempt"]
        /\ UNCHANGED <<strategy, handlers, ctxOpen, ctxErr, ctxAtStart, start,
                       err, now, result, log>>

\* time passes while a run is blocked in its select
Pass ==
    /\ \E r \in Runs : pc[r] = "select" /\ now < t[r].deadline
    /\ now' = now + 1
    /\ UNCHANGED <<strategy, handlers, pc, ctxOpen, ctxErr, ctxAtStart, n,
                   start, err, t, result, log>>

NextConcurrent ==
    \/ Go
    \/ Succeeds
    \/ Fails
    \/ Consult
    \/ Load
    \/ Store
    \/ TimerFires
    \/ Pass

SpecConcurrent == InitConcurrent /\ [][NextConcurrent]_vars

-----------------------------------------------------------------------------
(* The claims *)

\* C1: in every run the attempt function is invoked at least once, the first
\* time with n = 1 and before anything else is done, in particular before
\* any look at the context, even when the context is cancelled from the start.
C1_AttemptAtLeastOnce ==
    pc \in {"inAttempt", "select", "done"} =>
        /\ log # <<>>
        /\ log[1].ev = "call"
        /\ log[1].n = 1
        /\ log[1].c = ctxAtStart

C1_Witness ==
    /\ pc = "done"
    /\ ctxAtStart = "Canceled"
    /\ Calls = <<1>>

\* C2: when call k of the attempt function returns nil after k-1 ordinary
\* failures, the run returns nil, the attempt function was invoked exactly k
\* times, with n = 1, ..., k in that order, and after the successful call the
\* strategy, the handlers and the timer are not used again.
C2_SuccessEndsRun ==
    EndedWith("nil") =>
        /\ result = "nil"
        /\ Calls = UpTo(n)
        /\ Cardinality(At("return")) = n
        /\ \A i \in At("return") : i # Last(At("return")) =>
              log[i].e = AttemptErr(log[i].n)
        /\ OnlyStopAfter(Last(At("return")))
        /\ Cardinality(At("delay")) = n - 1

C2_Witness ==
    /\ EndedWith("nil")
    /\ n = 3
    /\ handlers # <<>>

C4_PolicyExit ==
    \A i \in At("delay") :
        log[i].d = Exit =>
            /\ pc = "done"
            /\ i > 1 /\ log[i - 1].ev = "return" /\ log[i - 1].n = n
            /\ log[i - 1].e = AttemptErr(n)
            /\ result = IF log[i].c # "nil" THEN log[i].c ELSE AttemptErr(n)
            /\ \A j \in DOMAIN log : j > i => log[j].ev \in {"ctxerr", "stop"}

C4_Witness ==
    /\ pc = "done"
    /\ n = 3
    /\ \E i \in At("delay") : log[i].d = Exit /\ log[i].c = "nil"

C4_WitnessCancelled ==
    /\ pc = "done"
    /\ n = 3
    /\ \E i \in At("delay") : log[i].d = Exit /\ log[i].c = "Canceled"

\* C5: for every ordinary failure of attempt n for which the strategy gave a
\* delay other than Exit, every registered handler is called, in registration
\* order, with n, that delay and that attempt's error, after the strategy was
\* consulted and before the timer is armed for the wait, so before attempt
\* n+1.
C5_HandlersNotified ==
    \A i \in At("delay") :
        log[i].d # Exit =>
            LET k == Len(handlers)
            IN  /\ i > 1 /\ log[i - 1].ev = "return" /\ log[i - 1].n = log[i].n
                /\ Len(log) >= i + k + 1
                /\ \A j \in 1 .. k :
                      log[i + j] = [log[i] EXCEPT !.ev = "notify",
                                                 !.h = handlers[j],
                                                 !.e = log[i - 1].e]
                /\ log[i + k + 1].ev \in {"newtimer", "reset"}
                /\ log[i + k + 1].d = log[i].d
                /\ \A c \in At("call") : log[c].n > log[i].n => c > i + k + 1

C5_Witness ==
    /\ pc = "select"
    /\ n = 2
    /\ handlers = <<1, 2>>
    /\ \E i \in At("delay") : log[i].n = 2 /\ log[i].d = 3

\* C6: a handler is never notified for an attempt that returned nil or an
\* ExitError, or for which the strategy returned Exit; in a run that ends by
\* success, by an ExitError or by the strategy's Exit at attempt N, every
\* handler has been notified exactly N-1 times, of n = 1, ..., N-1 in order.
C6_NotificationCount ==
    /\ LET returned == {<<log[r].n, log[r].e>> : r \in At("return")}
           exited == {log[r].n : r \in {k \in At("delay") : log[k].d = Exit}}
       IN  \A i \in At("notify") :
              /\ log[i].e = AttemptErr(log[i].n)
              /\ <<log[i].n, log[i].e>> \in returned
              /\ log[i].n \notin exited
              /\ log[i].d # Exit
    /\ pc = "done" /\ At("done") = {} =>
          \A j \in DOMAIN handlers : Notified(handlers[j]) = UpTo(n - 1)

C6_Witness ==
    /\ pc = "done"
    /\ At("done") = {}
    /\ n = 3
    /\ handlers = <<1, 2>>
    /\ Notified(2) = <<1, 2>>

\* C7: when the context's Done wins the select, the run returns the
\* context's error at once and the attempt function is not invoked again;
\* when the timer wins, the next thing the run does is the next attempt, with
\* n greater by exactly one.
C7_SelectOutcome ==
    /\ \A i \in At("done") :
          /\ pc = "done"
          /\ log[i].c = "Canceled"
          /\ result = log[i].c
          /\ OnlyStopAfter(i)
    /\ \A i \in At("tick") :
          /\ i < Len(log)
          /\ log[i + 1].ev = "call"
          /\ log[i + 1].n = log[i].n + 1

C7_Witness ==
    /\ pc = "done"
    /\ At("tick") # {}
    /\ At("done") # {}
    /\ n = 3

\* the call event and the return event of the attempt whose return is logged
\* at position i say that ctx was cancelled while that attempt ran
CancelledDuring(i) ==
    /\ log[i].ev = "return"
    /\ log[i].c = "Canceled"
    /\ i > 1 /\ log[i - 1].ev = "call" /\ log[i - 1].c = "nil"

\* C8: if the context is cancelled during an attempt and that attempt fails
\* with an ordinary error, the run returns the cancellation error and does
\* not invoke the attempt function again, whatever delay the strategy gives.
C8_CancelDuringFailingAttempt ==
    \A i \in At("return") :
        CancelledDuring(i) /\ log[i].e = AttemptErr(log[i].n) =>
            /\ \A c \in At("call") : c < i
            /\ pc = "done" => result = "Canceled"

RECURSIVE Limits(_)
Limits(s) ==
    IF s.kind \in BaseKinds THEN {}
    ELSE IF s.kind = "limit" THEN {s.n} \cup Limits(s.inner)
    ELSE Limits(s.inner)

\* a strategy has a Timeout decorator
RECURSIVE HasTimeout(_)
HasTimeout(s) ==
    IF s.kind \in BaseKinds THEN FALSE
    ELSE s.kind = "timeout" \/ HasTimeout(s.inner)

\* the strategy the cycler was created with
RECURSIVE BaseOf(_)
BaseOf(s) == IF s.kind \in BaseKinds THEN s ELSE BaseOf(s.inner)

C10_WitnessOne ==
    /\ pc = "done"
    /\ Limits(strategy) = {1}
    /\ BaseOf(strategy) # Once
    /\ result = "E1"
    /\ handlers # <<>>
    /\ At("notify") = {}

\* neither Limit nor Timeout is configured, and the base strategy is
\* Constant, Linear or Exponential
Unlimited(s) == Limits(s) = {} /\ ~HasTimeout(s) /\ BaseOf(s) # Once

\* C11: on a cycler with neither Limit nor Timeout (a base strategy Constant,
\* Linear or Exponential, with or without Cap and Jitter), a run whose
\* attempts always fail with ordinary errors and whose context is never
\* cancelled never ends: the strategy never returns Exit, and the attempt
\* number reaches every value (here: up to MaxAttempts, where the model
\* stops counting).
C11_RunsForever ==
    /\ [](Unlimited(strategy) =>
            /\ pc # "done"
            /\ \A i \in At("delay") : log[i].d # Exit)
    /\ (Unlimited(strategy) /\ pc # "idle") ~> (n = MaxAttempts)

C11_Witness ==
    /\ Unlimited(strategy)
    /\ strategy.kind = "jitter"
    /\ strategy.inner.kind = "cap"
    /\ BaseOf(strategy).kind = "linear"
    /\ n = MaxAttempts
    /\ pc = "select"

\* the arguments of the Timeout decorators of a strategy
RECURSIVE Timeouts(_)
Timeouts(s) ==
    IF s.kind \in BaseKinds THEN {}
    ELSE IF s.kind = "timeout" THEN {s.limit} \cup Timeouts(s.inner)
    ELSE Timeouts(s.inner)

\* C12: with Timeout(limit), limit > 0, applied to the cycler, limit is the
\* greatest duration of a cycle: no invocation of the attempt function begins
\* at a time t with t - start >= limit.
C12_TimeoutBoundsCycle ==
    \A i \in At("call") :
        \A limit \in Timeouts(strategy) : log[i].at - start < limit

\* the arguments of the Cap decorators of a strategy
RECURSIVE Caps(_)
Caps(s) ==
    IF s.kind \in BaseKinds THEN {}
    ELSE IF s.kind = "cap" THEN {s.max} \cup Caps(s.inner)
    ELSE Caps(s.inner)

\* C16: with Cap(max), max > 0, applied to the cycler, max is the greatest
\* delay between consecutive attempts: every delay that is reported to the
\* handlers or that the timer is armed with is at most max, whatever other
\* configuration calls were made before or after the Cap call.
C16_CapBoundsDelays ==
    \A i \in At("notify") \cup At("newtimer") \cup At("reset") :
        \A max \in Caps(strategy) : log[i].d <= max

-----------------------------------------------------------------------------
(* The claims about package backoff on its own *)

\* log[i] is the call s.Delay(n, start) with the arguments of the state
IsDelayOf(i, s) ==
    /\ Len(log) >= i
    /\ log[i].op = "Delay"
    /\ log[i].s = s
    /\ log[i].arg = <<n, start>>

\* C13: Timeout(inner, limit, clock) with limit > 0 reads the clock and
\* returns Exit, without calling inner, exactly when clock.Time() - start >=
\* limit, the case clock.Time() - start = limit included; otherwise it
\* returns what inner.Delay(n, start) returns.
C13_TimeoutExits ==
    LET c == log[1]
    IN  (c.op = "Timeout" /\ c.arg[1] > 0 /\ n > 0) =>
            /\ IsDelayOf(2, c.ret)
            /\ log[2].ret = result
            /\ Len(log) >= 3
            /\ log[3] = Called("Time", <<>>, c.ret, now)
            /\ IF now - start >= c.arg[1]
               THEN result = Exit /\ Len(log) = 3
               ELSE IsDelayOf(4, c.s) /\ result = log[4].ret

C13_Witness ==
    /\ log[1] = Called("Timeout", <<2>>, Constant(1), Timeout(Constant(1), 2))
    /\ n > 0
    /\ now - start = 2
    /\ result = Exit
    /\ Len(log) = 3

\* C14: Limit(inner, n_max) with n_max >= 1 returns Exit for every n >=
\* n_max, without calling inner or anything beneath it, and what
\* inner.Delay(n, start) returns for every n < n_max.
C14_LimitExits ==
    LET c == log[1]
    IN  (c.op = "Limit" /\ c.arg[1] >= 1 /\ n > 0) =>
            /\ IsDelayOf(2, c.ret)
            /\ log[2].ret = result
            /\ IF n >= c.arg[1]
               THEN result = Exit /\ Len(log) = 2
               ELSE IsDelayOf(3, c.s) /\ result = log[3].ret

C14_Witness ==
    /\ log[1].op = "Limit"
    /\ log[1].arg = <<2>>
    /\ log[1].s.kind = "jitter"
    /\ BaseOf(log[1].s) = Constant(1000)
    /\ n = 2
    /\ result = Exit
    /\ Len(log) = 2

\* C15: Cap(inner, max) with max > 0 returns the smaller of
\* inner.Delay(n, start) and max: the inner delay when it is at most max, max
\* when it is larger; so every result is Exit or lies in [0, max], and an
\* Exit of inner stays Exit.
C15_CapIsMin ==
    LET c == log[1]
    IN  (c.op = "Cap" /\ c.arg[1] > 0 /\ n > 0) =>
            /\ IsDelayOf(2, c.ret)
            /\ log[2].ret = result
            /\ IsDelayOf(3, c.s)
            /\ LET d == log[3].ret
                   max == c.arg[1]
               IN  /\ d <= max => result = d
                   /\ d > max => result = max
                   /\ d = Exit => result = Exit
                   /\ result = Exit \/ (0 <= result /\ result <= max)

\* a strategy and the strategies it wraps
RECURSIVE Inside(_)
Inside(s) == IF s.kind \in BaseKinds THEN {s} ELSE {s} \cup Inside(s.inner)

\* the constructor call c was given a parameter that disables the decorator
Disabling(c) ==
    \/ c.op = "Cap" /\ c.arg[1] <= 0
    \/ c.op = "Limit" /\ c.arg[1] < 1
    \/ c.op = "Timeout" /\ c.arg[1] <= 0
    \/ c.op = "Jitter" /\ c.arg[1] = 0

\* C17: a decorator constructed with a disabling parameter (Cap with max <=
\* 0, Limit with n < 1, Timeout with limit <= 0, Jitter with spread = 0) is
\* the inner strategy itself: a call of Delay on the result is the call of
\* the inner strategy's Delay, and no Clock or Random is consulted on behalf
\* of the decorator (every call made is made by the inner strategy or by a
\* strategy it wraps).
C17_DisabledIsInner ==
    LET c == log[1]
    IN  Disabling(c) =>
            /\ c.ret = c.s
            /\ n > 0 =>
                  /\ IsDelayOf(2, c.s)
                  /\ log[2].ret = result
                  /\ \A i \in 2 .. Len(log) : log[i].s \in Inside(c.s)

C17_Witness ==
    /\ log[1] = Called("Jitter", <<0>>, Constant(1000), Constant(1000))
    /\ n = 1
    /\ result = 1000
    /\ Len(log) = 2

\* C18: Jitter(inner, spread, random) with spread > 0 returns Exit, without
\* calling random, whenever inner.Delay(n, start) returns Exit, and never
\* returns Exit when inner returns something else.
C18_JitterKeepsExit ==
    LET c == log[1]
    IN  (c.op = "Jitter" /\ c.arg[1] \in 1 .. 3 /\ n > 0) =>
            /\ IsDelayOf(2, c.ret)
            /\ log[2].ret = result
            /\ IsDelayOf(3, c.s)
            /\ IF log[3].ret = Exit
               THEN /\ result = Exit
                    /\ \A i \in DOMAIN log : log[i].op # "random"
               ELSE result # Exit

C18_Witness ==
    /\ log[1] = Called("Jitter", <<2>>, Once, Jitter(Once, 2))
    /\ n = 1
    /\ result = Exit
    /\ Len(log) = 3

\* the state is the one after a call of Delay on Jitter(inner, spread, random)
\* with spread in (0,1) whose inner strategy returned a delay D >= 0
Jittered ==
    /\ log[1].op = "Jitter"
    /\ log[1].arg[1] \in 1 .. 3
    /\ n > 0
    /\ log[3].ret >= 0

\* 16 * (D - s*D + r*(2*s*D + 1)) for the call of a Jittered state, s = sq/4
\* and r = rq/4
JitterTimes16 ==
    LET D == log[3].ret
        sq == log[1].arg[1]
        rq == log[Len(log)].ret
    IN  16 * D - 4 * sq * D + rq * (2 * sq * D + 4)

Exponentiated == log[1].op = "Exponential" /\ n > 0

\* r is d * m^(n-1) without its fraction, m = mn/md
IsPower(r, d, mn, md) ==
    /\ Pow(md, n - 1) * r <= d * Pow(mn, n - 1)
    /\ d * Pow(mn, n - 1) < Pow(md, n - 1) * (r + 1)

C21_ExponentialSaturates ==
    (Exponentiated /\ log[1].arg[2] > log[1].arg[3]) =>
        LET d == log[1].arg[1]
            mn == log[1].arg[2]
            md == log[1].arg[3]
        IN  /\ result >= 0
            /\ result # Exit
            /\ d * Pow(mn, n - 1) > MaxDuration * Pow(md, n - 1)
                  => result = MaxDuration
            /\ (n > 1 /\ log[1].ret.kind = "exponential") =>
                  \E arch \in Archs :
                      /\ result = exponentialDelay(log[1].ret, n, arch)
                      /\ exponentialDelay(log[1].ret, n - 1, arch) <= result

\* C22: Linear(d, k).Delay(n, start) is the greater of 0 and d + k*(n-1) for
\* every n >= 1, every d >= 0 and every k, whatever start is; it is never
\* negative and never Exit, and Linear(d, 0) is Constant(d).
C22_LinearClamped ==
    (log[1].op = "Linear" /\ log[1].arg[1] >= 0 /\ n > 0) =>
        LET d == log[1].arg[1]
            k == log[1].arg[2]
        IN  /\ IsDelayOf(2, log[1].ret)
            /\ log[2].ret = result
            /\ result = IF d + k * (n - 1) < 0 THEN 0 ELSE d + k * (n - 1)
            /\ result >= 0
            /\ result # Exit
            /\ k = 0 => log[1].ret = Constant(d)

\* C23: a misconfiguration fails at construction: Constant(d), Linear(d, k)
\* and Exponential(d, m) panic for d < 0, Exponential panics for m < 0, and
\* Jitter panics for a spread below 0 or not below 1; no strategy is returned
\* then, and the variable a panicking Jitter call was to assign (the
\* cycler's strategy) holds what it held.
C23_PanicsAtConstruction ==
    LET c == log[1]
    IN  /\ (c.op \in {"Constant", "Linear", "Exponential"} /\ c.arg[1] < 0) =>
              c.ret = Panicked /\ strategy = NoStrategy
        /\ (c.op = "Exponential" /\ c.arg[2] < 0) =>
              c.ret = Panicked /\ strategy = NoStrategy
        /\ (c.op = "Jitter" /\ (c.arg[1] < 0 \/ c.arg[1] >= 4)) =>
              c.ret = Panicked /\ strategy = c.s

C23_Witness ==
    /\ log[1] = Called("Jitter", <<4>>, Constant(1000), Panicked)
    /\ strategy = Constant(1000)
    /\ n = 1
    /\ result = 1000

\* the constructor call c wrapped a strategy that the same constructor, with
\* the same argument, had wrapped just before
SameTwice(c) ==
    /\ c.op \in {"Cap", "Limit", "Timeout", "Jitter"}
    /\ c.ret # Panicked
    /\ c.ret # c.s
    /\ c.s.kind = c.ret.kind
    /\ CASE c.op = "Cap" -> c.s.max = c.arg[1]
         [] c.op = "Limit" -> c.s.n = c.arg[1]
         [] c.op = "Timeout" -> c.s.limit = c.arg[1]
         [] c.op = "Jitter" -> c.s.sq = c.arg[1]

\* C26: Cap, Limit, Timeout and Jitter are idempotent: a strategy that one of
\* them was applied to twice in a row with the same argument returns, for
\* every attempt number, start time, clock reading and sequence of random
\* samples, what the strategy it was applied to once returns.
C26_Idempotent ==
    (SameTwice(log[1]) /\ n > 0) =>
        LET c == log[1]
            k == IF c.op = "Timeout" THEN 4 ELSE 3
        IN  IF Len(log) >= k
            THEN IsDelayOf(k, c.s) /\ result = log[k].ret
            ELSE /\ result = Exit
                 /\ \A rs \in [JitterDepths(c.s) -> Quarters], arch \in Archs :
                       Delay(c.s, n, start, now, rs, arch) = Exit

-----------------------------------------------------------------------------
(* More claims about the retry cycle *)

\* C28: TryWithContext returns nil exactly when the last invocation of the
\* attempt function returned nil; on every other path (an ExitError whatever
\* its cause, an Exit of the strategy, a cancelled context) it returns an
\* error that is not nil.
C28_NilOnlyOnSuccess ==
    pc = "done" =>
        (result = "nil" <=> log[Last(At("return"))].e = "nil")

\* positions of the log where the timer is armed
Arms == At("newtimer") \cup At("reset")

\* C29: for each attempt that returns an ordinary error the strategy is
\* consulted exactly once, with the attempt's number and the start time that
\* was recorded once, before the first attempt; what it returns is the delay
\* the handlers are given and the delay the timer is armed with.  After
\* other attempts it is not consulted.  (What the consultation returned is
\* compared with Delay for the latest attempt of each state; every attempt
\* is the latest one in the states that follow its return.)
C29_StrategyConsultedOnce ==
    LET delays == At("delay")
    IN  /\ pc # "idle" => log[1].ev = "call" /\ log[1].at = start
        /\ \A r \in At("return") :
              LET consulted == {i \in delays : log[i].n = log[r].n}
              IN  IF log[r].e = AttemptErr(log[r].n)
                  THEN /\ consulted = {r + 1}
                       /\ log[r].n = n =>
                             \E rs \in [JitterDepths(strategy) -> Samples],
                                arch \in Archs :
                                log[r + 1].d = Delay(strategy, n, start,
                                                     log[r + 1].at, rs, arch)
                  ELSE consulted = {}
        /\ \A i \in At("notify") \cup Arms :
              \E j \in delays :
                  j < i /\ log[j].n = log[i].n /\ log[j].d = log[i].d

C29_Witness ==
    /\ pc = "select"
    /\ strategy.kind = "jitter"
    /\ handlers # <<>>
    /\ \E i \in At("reset") : log[i].n = 2 /\ log[i].d = 3

\* C30: each iteration waits once, and for the whole delay: attempt n+1 is
\* invoked only after the timer armed with the delay of attempt n has fired,
\* which is not before that delay has passed; the timer is created at the
\* first wait and armed again, with Reset, only after the tick of the wait
\* before has been received.
C30_WaitsFullDelay ==
    LET arms == Arms
        ticks == At("tick")
    IN  /\ \A c \in At("call") :
              log[c].n > 1 =>
                  /\ log[c - 1].ev = "tick"
                  /\ log[c - 1].n = log[c].n - 1
                  /\ \E a \in arms :
                        /\ a < c
                        /\ log[a].n = log[c].n - 1
                        /\ log[c].at >= log[a].at + log[a].d
        /\ \A a \in arms :
              /\ \A b \in arms : log[a].n = log[b].n => a = b
              /\ log[a].ev = "newtimer" <=> log[a].n = 1
              /\ log[a].ev = "reset" =>
                    \E k \in ticks, b \in arms :
                        b < k /\ k < a /\ log[b].n = log[a].n - 1
                              /\ log[k].n = log[a].n - 1
        /\ \A k, l \in ticks : log[k].n = log[l].n => k = l

C30_Witness ==
    /\ pc = "inAttempt"
    /\ n = 3
    /\ \E a \in At("reset") :
          log[a].d = 2 /\ log[Last(At("call"))].at = log[a].at + 2

\* the cycler's strategy is a decorator applied to a strategy that the same
\* decorator had been applied to before, with another argument
TwiceDiffering(kind) ==
    /\ strategy.kind = kind
    /\ strategy.inner.kind = kind
    /\ BaseOf(strategy) # Once
    /\ CASE kind = "cap" -> strategy.max # strategy.inner.max
         [] kind = "limit" -> strategy.n # strategy.inner.n
         [] kind = "timeout" -> strategy.limit # strategy.inner.limit

\* C27: of two configuration calls of the same kind with different arguments
\* the last one wins: after Limit(a) and then Limit(b) a run whose attempts
\* always fail, uncancelled, makes exactly b attempts; after Cap(a) and then
\* Cap(b) every delay is the smaller of b and the delay of the strategy
\* beneath the two; after Timeout(a) and then Timeout(b) the strategy exits
\* exactly when the time elapsed is b or more.
C27_LastAppliedWins ==
    /\ (TwiceDiffering("limit") /\ pc = "done") => n = strategy.n
    /\ TwiceDiffering("cap") =>
          \A i \in At("delay") :
              \E rs \in [JitterDepths(strategy.inner.inner) -> Samples],
                 arch \in Archs :
                  LET d == Delay(strategy.inner.inner, log[i].n, start,
                                 log[i].at, rs, arch)
                  IN  log[i].d = IF d > strategy.max THEN strategy.max ELSE d
    /\ TwiceDiffering("timeout") =>
          \A i \in At("delay") :
              log[i].d = Exit <=> log[i].at - start >= strategy.limit

\* C24: a configured cycler can be used again: the steps of a run leave the
\* cycler's strategy and handlers as they are, and every call of
\* TryWithContext, whatever the runs before it left behind, starts with a
\* first invocation of the attempt function with n = 1, no timer, and the
\* start time read from the clock at the call.
C24_CyclerReusable ==
    [][/\ (pc # "idle" \/ pc' # "idle") =>
              strategy' = strategy /\ handlers' = handlers
       /\ (pc = "idle" /\ pc' # "idle") =>
              /\ n' = 1
              /\ start' = now
              /\ t' = NoTimer
              /\ log' = <<EvC("call", 1, 0, 0, "nil", ctxAtStart')>>]_vars

C24_Witness ==
    /\ pc = "inAttempt"
    /\ n = 1
    /\ start > 0
    /\ handlers # <<>>
    /\ strategy \notin Bases
    /\ Len(log) = 1

\* C31: the timer of a run is released on every path out of it: a run
\* creates at most one timer, and none before its first wait, so a run that
\* ends at its first attempt (by success, by an ExitError or by Exit) has
\* none; when TryWithContext has returned, by whichever return statement,
\* the timer, if one was created, has been stopped, once and as the last
\* thing done, and is not armed; while the run goes on it is not stopped.
C31_TimerReleased ==
    LET created == At("newtimer")
        stops == At("stop")
    IN  /\ Cardinality(created) <= 1
        /\ t.st = "nil" <=> created = {}
        /\ pc # "done" => stops = {}
        /\ pc = "done" =>
              /\ t.st \in {"nil", "stopped"}
              /\ created # {} => stops = {Len(log)}
              /\ created = {} => stops = {}
              /\ (n = 1 /\ At("done") = {}) => created = {}

\* the run has waited twice and was cancelled in its second wait
C31_Witness ==
    /\ pc = "done"
    /\ result = "Canceled"
    /\ n = 2
    /\ t.st = "stopped"
    /\ At("reset") # {}
    /\ log[Len(log)].ev = "stop"

\* attempt log[i].n returned an ordinary error at position i of the log
\* while the context was cancelled, and the strategy gave a delay that is
\* not Exit
FailedCancelled(i) ==
    /\ log[i].ev = "return"
    /\ log[i].c = "Canceled"
    /\ log[i].e = AttemptErr(log[i].n)
    /\ log[i + 1].ev = "delay"
    /\ log[i + 1].d # Exit

\* C32: the context is not looked at between an attempt and the
\* notification of the handlers: if the context is cancelled by the time
\* attempt n fails with an ordinary error and the strategy gives a delay
\* other than Exit, every handler is notified once of attempt n, with that
\* delay and the attempt's own error, and the run then returns the
\* context's error.
C32_NotifiedDespiteCancel ==
    \A i \in At("return") :
        FailedCancelled(i) =>
            /\ \A j \in DOMAIN handlers :
                  log[i + 1 + j] = [log[i + 1] EXCEPT !.ev = "notify",
                                                     !.h = handlers[j],
                                                     !.e = log[i].e]
            /\ Cardinality({k \in At("notify") : log[k].n = log[i].n})
                   = Len(handlers)
            /\ pc = "done" => result = "Canceled"

-----------------------------------------------------------------------------
(* The claim about concurrent runs *)

\* C25: runs of TryWithContext that go on at the same time on one configured
\* cycler, a cycler configured with Jitter included, share no mutable state:
\* nothing that one run writes is read or written by another run.
C25_RunsShareNothing ==
    \A i, j \in DOMAIN log :
        (log[i].run # log[j].run /\ log[i].obj = log[j].obj) =>
            log[i].op = "read" /\ log[j].op = "read"

=============================================================================
